---- MODULE Spec2Model ----
(***************************************************************************)
(* The signaling server of signaling-server/app.js as a state machine:    *)
(* the topic registry (topics), the per-connection closure state of       *)
(* onconnection (subscribedTopics, closed, pongReceived, pingInterval),   *)
(* the channel state of every connection (readyState) and one action per  *)
(* callback: 'connection', 'message', 'pong', 'close' and the heartbeat   *)
(* interval.  Node runs every callback to completion, so each callback is *)
(* one atomic step.                                                        *)
(***************************************************************************)
EXTENDS Naturals, Sequences, FiniteSets, TLC

\* ------------------------------------------------------------------ bounds
\* The connections that may be accepted and the topic names clients use.
Conns == {"A", "B"}
Topics == {"room1"}
\* An entry of a topics list (or a topic field) that is not a string.
NonStrings == {"#42"}
\* Longest topics list of a subscribe / unsubscribe message.
MaxTopicsLen == 2

\* ------------------------------------------------------------ the channel
wsReadyStateConnecting == 0
wsReadyStateOpen == 1
wsReadyStateClosing == 2
wsReadyStateClosed == 3

\* conn.close() of the channel: an open (or connecting) channel starts its
\* closing handshake, a closing or closed one is left as it is.  The 'close'
\* event is emitted later, never from inside close().
ConnClose(rs) ==
    IF rs \in {wsReadyStateConnecting, wsReadyStateOpen}
    THEN wsReadyStateClosing ELSE rs

\* conn.send(data) of the channel.  fault: the transport fails this send.
\* Only an open channel puts the data on the wire; a connecting channel
\* throws; a closing or closed one throws or drops the data, depending on
\* the channel implementation, and in both cases nothing is delivered.
ConnSend(rs, fault) ==
    [delivered |-> (rs = wsReadyStateOpen) /\ ~fault,
     threw |-> fault \/ rs # wsReadyStateOpen]

\* ------------------------------------------------- JavaScript Set and Map
\* A Set keeps its members without duplicates in insertion order.
SetHas(s, x) == \E i \in 1..Len(s) : s[i] = x
\* (variant: add appends without looking for the member, as an array push)
SetAddAlways(s, x) == Append(s, x)

SetAdd(s, x) == IF SetHas(s, x) THEN s ELSE Append(s, x)
SetDelete(s, x) == SelectSeq(s, LAMBDA y : y # x)
SetSize(s) == Len(s)
Members(s) == {s[i] : i \in 1..Len(s)}

MapHas(m, k) == k \in DOMAIN m
MapSet(m, k, v) == [x \in (DOMAIN m) \cup {k} |-> IF x = k THEN v ELSE m[x]]
MapDelete(m, k) == [x \in (DOMAIN m) \ {k} |-> m[x]]
\* lib0/map setIfUndefined(map, key, createT), createT = () => new Set()
setIfUndefined(m, k) == IF MapHas(m, k) THEN m ELSE MapSet(m, k, << >>)

\* ------------------------------------------------------ inbound payloads
\* The value of a message's topics field: absent (or falsy), an array of
\* entries, or a truthy value that is no array (a string, a number, an
\* object), which has no forEach.
Entries == Topics \cup NonStrings
ListsOver(entries) == UNION {[1..n -> entries] : n \in 0..MaxTopicsLen}
TopicLists == ListsOver(Entries)
NoTopics == [kind |-> "undefined", items |-> << >>]
ScalarTopics == [kind |-> "scalar", items |-> << >>]
ArrayTopics(l) == [kind |-> "array", items |-> l]
TopicsValues(lists) == {NoTopics, ScalarTopics} \cup {ArrayTopics(l) : l \in lists}

\* A parsed JSON value: truthy is FALSE for null; type "" is a missing type;
\* topic "" is a missing (or empty) topic.  Subscribe tests the type of
\* every entry, so its lists hold strings and other entries; unsubscribe
\* looks every entry up as a key and only strings are keys, so its lists
\* hold topic names.
Value(tr, ty, tv, tp) == [truthy |-> tr, type |-> ty, topics |-> tv, topic |-> tp]
NullValue == Value(FALSE, "", NoTopics, "")
Values ==
    {Value(TRUE, "subscribe", tv, "") : tv \in TopicsValues(TopicLists)}
    \cup {Value(TRUE, "unsubscribe", tv, "") : tv \in TopicsValues(ListsOver(Topics))}
    \cup {Value(TRUE, "publish", NoTopics, tp) : tp \in Entries \cup {""}}
    \cup {Value(TRUE, ty, NoTopics, "") : ty \in {"ping", "bye", ""}}
    \cup {NullValue}

\* The payload of a 'message' event: a text that is JSON or is not.
Payloads ==
    {[json |-> TRUE, value |-> v] : v \in Values}
    \cup {[json |-> FALSE, value |-> NullValue]}
NoPayload == [json |-> TRUE, value |-> NullValue]

\* JSON.parse(message): the value, or a SyntaxError for a text that is no JSON.
JSONparse(p) == [threw |-> ~p.json, value |-> p.value]

typeofString(entry) == entry \notin NonStrings

\* ------------------------------------------------------------------ state
VARIABLES
    connected,        \* connections onconnection has run for
    topics,           \* Map topic name -> Set of connections
    subscribedTopics, \* per connection: Set of topic names
    closed,           \* per connection: the closed flag
    pongReceived,     \* per connection: pong seen since the last probe
    pingInterval,     \* per connection: the heartbeat interval is running
    readyState,       \* per connection: state of the channel
    acking,           \* per connection: the peer still answers probes
    crashed,          \* an exception escaped a callback: the process is gone
    event,            \* the callback that ran last
    sent,             \* per connection: messages handed to conn.send by it
    delivered,        \* per connection: messages it put on the wire
    probes,           \* per connection: conn.ping() calls it made
    probeFailed,      \* a conn.ping() call it made threw
    joined,           \* per connection: topics asked for and not left since
    before            \* the registry, the channels and the flags as that callback found them

vars == <<connected, topics, subscribedTopics, closed, pongReceived,
          pingInterval, readyState, acking, crashed, event, sent, delivered,
          probes, probeFailed, joined, before>>

registry == <<topics, subscribedTopics>>

Event(k, c, p) == [kind |-> k, conn |-> c, payload |-> p]
NoneSent == [c \in Conns |-> << >>]
NoProbes == [c \in Conns |-> 0]
Snapshot ==
    [topics |-> topics, subscribedTopics |-> subscribedTopics,
     readyState |-> readyState, closed |-> closed,
     pongReceived |-> pongReceived, pingInterval |-> pingInterval]

\* The subscribers of a topic name, none when the name is no key.
subscribers(topicName) ==
    IF MapHas(topics, topicName) THEN Members(topics[topicName]) ELSE {}

Init ==
    /\ connected = {}
    /\ topics = [t \in {} |-> << >>]
    /\ subscribedTopics = [c \in Conns |-> {}]
    /\ closed = [c \in Conns |-> FALSE]
    /\ pongReceived = [c \in Conns |-> TRUE]
    /\ pingInterval = [c \in Conns |-> FALSE]
    /\ readyState = [c \in Conns |-> wsReadyStateOpen]
    /\ acking = [c \in Conns |-> TRUE]
    /\ crashed = FALSE
    /\ event = Event("start", "A", NoPayload)
    /\ sent = NoneSent
    /\ delivered = NoneSent
    /\ probes = NoProbes
    /\ probeFailed = FALSE
    /\ joined = [c \in Conns |-> {}]
    /\ before = Snapshot

\* wss.on('connection', onconnection): the server hands over an open channel.
OnConnection(conn) ==
    /\ ~crashed
    /\ conn \notin connected
    /\ connected' = connected \cup {conn}
    /\ subscribedTopics' = [subscribedTopics EXCEPT ![conn] = {}]
    /\ closed' = [closed EXCEPT ![conn] = FALSE]
    /\ pongReceived' = [pongReceived EXCEPT ![conn] = TRUE]
    /\ pingInterval' = [pingInterval EXCEPT ![conn] = TRUE]
    /\ readyState' = [readyState EXCEPT ![conn] = wsReadyStateOpen]
    /\ event' = Event("connection", conn, NoPayload)
    /\ before' = Snapshot
    /\ sent' = NoneSent
    /\ delivered' = NoneSent
    /\ probes' = NoProbes
    /\ probeFailed' = FALSE
    /\ joined' = [joined EXCEPT ![conn] = {}]
    /\ UNCHANGED <<topics, acking, crashed>>

\* ------------------------------------------------------------------- send
\* What a callback does to the channels: io.readyState, and per connection
\* io.sent (handed to conn.send) and io.delivered (put on the wire).
OutMsg(ty, tp, n) == [type |-> ty, topic |-> tp, clients |-> n]
PongMsg == OutMsg("pong", "", 0)
NoIO == [readyState |-> readyState, sent |-> NoneSent, delivered |-> NoneSent]

\* send(conn, message): a channel that is neither connecting nor open is
\* closed, and conn.send is called in every case; when it throws, the
\* channel is closed.
send(io, conn, message, fault) ==
    LET rs0 == io.readyState[conn]
        rs1 == IF rs0 # wsReadyStateConnecting /\ rs0 # wsReadyStateOpen
               THEN ConnClose(rs0) ELSE rs0
        out == ConnSend(rs1, fault)
        rs2 == IF out.threw THEN ConnClose(rs1) ELSE rs1
    IN  [readyState |-> [io.readyState EXCEPT ![conn] = rs2],
         sent |-> [io.sent EXCEPT ![conn] = Append(@, message)],
         delivered |-> [io.delivered EXCEPT ![conn] =
                           IF out.delivered THEN Append(@, message) ELSE @]]

\* receivers.forEach(receiver => send(receiver, message))
RECURSIVE sendEach(_, _, _, _)
sendEach(io, receivers, message, faults) ==
    IF receivers = << >> THEN io
    ELSE sendEach(send(io, Head(receivers), message, Head(receivers) \in faults),
                  Tail(receivers), message, faults)

\* ---------------------------------------------------- the message handler
\* reg = [topics, subscribedTopics]: the registry and the handling
\* connection's own set.

\* (variant: subscribe enters the connection in the topic's set and not
\* the name in the connection's own set)
subscribeOneRegistryOnly(reg, conn, topicName) ==
    IF typeofString(topicName)
    THEN LET m == setIfUndefined(reg.topics, topicName)
         IN  [topics |-> MapSet(m, topicName, SetAdd(m[topicName], conn)),
              subscribedTopics |-> reg.subscribedTopics]
    ELSE reg

\* (variant: only the first subscriber of a topic is entered in its set)
subscribeOneFirstOnly(reg, conn, topicName) ==
    IF typeofString(topicName)
    THEN [topics |-> IF MapHas(reg.topics, topicName) THEN reg.topics
                     ELSE MapSet(reg.topics, topicName, <<conn>>),
          subscribedTopics |-> reg.subscribedTopics \cup {topicName}]
    ELSE reg

\* The body of the subscribe loop.
subscribeOne(reg, conn, topicName) ==
    IF typeofString(topicName)
    THEN LET m == setIfUndefined(reg.topics, topicName)
         IN  [topics |-> MapSet(m, topicName, SetAdd(m[topicName], conn)),
              subscribedTopics |-> reg.subscribedTopics \cup {topicName}]
    ELSE reg
\* (variant: unsubscribe drops the whole topic entry)
unsubscribeOneDropsTopic(reg, conn, topicName) ==
    IF MapHas(reg.topics, topicName)
    THEN [topics |-> MapDelete(reg.topics, topicName),
          subscribedTopics |-> reg.subscribedTopics]
    ELSE reg

\* (variant: unsubscribe takes the name out of the connection's own set
\* and leaves the connection in the topic's set)
unsubscribeOneOwnSetOnly(reg, conn, topicName) ==
    [topics |-> reg.topics,
     subscribedTopics |-> reg.subscribedTopics \ {topicName}]

\* The body of the unsubscribe loop: the connection leaves the topic's set;
\* the topic entry and the connection's own set stay as they are.
unsubscribeOne(reg, conn, topicName) ==
    IF MapHas(reg.topics, topicName)
    THEN [topics |-> MapSet(reg.topics, topicName,
                            SetDelete(reg.topics[topicName], conn)),
          subscribedTopics |-> reg.subscribedTopics]
    ELSE reg

RECURSIVE subscribeEach(_, _, _)
subscribeEach(reg, conn, items) ==
    IF items = << >> THEN reg
    ELSE subscribeEach(subscribeOne(reg, conn, Head(items)), conn, Tail(items))

RECURSIVE unsubscribeEach(_, _, _)
unsubscribeEach(reg, conn, items) ==
    IF items = << >> THEN reg
    ELSE unsubscribeEach(unsubscribeOne(reg, conn, Head(items)), conn, Tail(items))

\* (message.topics || []).forEach: a truthy value that is no array throws.
topicsForEach(tv) ==
    [threw |-> tv.kind = "scalar",
     items |-> IF tv.kind = "array" THEN tv.items ELSE << >>]
\* (variant: the closed flag is not consulted)
dispatchedWhenClosed(message, isClosed) ==
    message.truthy /\ message.type # ""

\* message && message.type && !closed
dispatched(message, isClosed) ==
    message.truthy /\ message.type # "" /\ ~isClosed
\* (variant: the count leaves one receiver out)
clientsLessOne(receivers) == SetSize(receivers) - 1

\* message.clients = receivers.size
clients(receivers) == SetSize(receivers)

\* (variant: the fan-out leaves the publisher out)
publishToOthers(conn, message, faults) ==
    IF message.topic # "" /\ MapHas(topics, message.topic)
    THEN LET receivers == topics[message.topic]
         IN  sendEach(NoIO, SetDelete(receivers, conn),
                      OutMsg("publish", message.topic, clients(receivers)), faults)
    ELSE NoIO

\* case 'publish'
publish(conn, message, faults) ==
    IF message.topic # "" /\ MapHas(topics, message.topic)
    THEN LET receivers == topics[message.topic]
         IN  sendEach(NoIO, receivers,
                      OutMsg("publish", message.topic, clients(receivers)), faults)
    ELSE NoIO
\* (variant: the reply is sent twice)
pingTwice(conn, faults) ==
    send(send(NoIO, conn, PongMsg, conn \in faults), conn, PongMsg, conn \in faults)

\* case 'ping'
ping(conn, faults) == send(NoIO, conn, PongMsg, conn \in faults)

\* The 'message' callback of conn: what it leaves behind.
onmessage(conn, payload, faults) ==
    LET parsed == JSONparse(payload)
        message == parsed.value
        reg == [topics |-> topics, subscribedTopics |-> subscribedTopics[conn]]
        same == [crashed |-> FALSE, reg |-> reg, io |-> NoIO]
        each == topicsForEach(message.topics)
    IN  IF parsed.threw THEN [same EXCEPT !.crashed = TRUE]
        ELSE IF ~dispatched(message, closed[conn]) THEN same
        ELSE CASE message.type = "subscribe" ->
                    IF each.threw THEN [same EXCEPT !.crashed = TRUE]
                    ELSE [same EXCEPT !.reg = subscribeEach(reg, conn, each.items)]
               [] message.type = "unsubscribe" ->
                    IF each.threw THEN [same EXCEPT !.crashed = TRUE]
                    ELSE [same EXCEPT !.reg = unsubscribeEach(reg, conn, each.items)]
               [] message.type = "publish" ->
                    [same EXCEPT !.io = publish(conn, message, faults)]
               [] message.type = "ping" ->
                    [same EXCEPT !.io = ping(conn, faults)]
               [] OTHER -> same

\* The sends of one callback that the transport may fail: the connections
\* the callback can send to.
Faults(conn, payload) ==
    IF ~payload.json THEN {{}}
    ELSE IF payload.value.type = "ping" THEN SUBSET {conn}
    ELSE IF payload.value.type = "publish" THEN SUBSET subscribers(payload.value.topic)
    ELSE {{}}

\* The topics a connection has asked for and not left, after one more
\* message of it: a subscribe that is processed adds the names it lists, an
\* unsubscribe that is processed removes them.
asked(names, payload, isClosed) ==
    LET message == payload.value
    IN  IF ~payload.json \/ isClosed \/ ~message.truthy
           \/ message.topics.kind # "array"
        THEN names
        ELSE IF message.type = "subscribe"
        THEN names \cup (Members(message.topics.items) \cap Topics)
        ELSE IF message.type = "unsubscribe"
        THEN names \ Members(message.topics.items)
        ELSE names

\* conn.on('message', ...)
OnMessage(conn, payload, faults) ==
    /\ ~crashed
    /\ conn \in connected
    /\ LET r == onmessage(conn, payload, faults)
       IN  /\ crashed' = r.crashed
           /\ topics' = r.reg.topics
           /\ subscribedTopics' = [subscribedTopics EXCEPT ![conn] = r.reg.subscribedTopics]
           /\ readyState' = r.io.readyState
           /\ sent' = r.io.sent
           /\ delivered' = r.io.delivered
    /\ event' = Event("message", conn, payload)
    /\ before' = Snapshot
    /\ probes' = NoProbes
    /\ probeFailed' = FALSE
    /\ joined' = [joined EXCEPT ![conn] = asked(@, payload, closed[conn])]
    /\ UNCHANGED <<connected, closed, pongReceived, pingInterval, acking>>

\* (variant: close skips a topic whose set does not hold the connection)
closeOneMembersOnly(tps, conn, topicName) ==
    IF MapHas(tps, topicName) /\ SetHas(tps[topicName], conn)
    THEN LET left == SetDelete(tps[topicName], conn)
         IN  IF SetSize(left) = 0 THEN MapDelete(tps, topicName)
             ELSE MapSet(tps, topicName, left)
    ELSE tps
\* (variant: close leaves the emptied topic entry, as unsubscribe does)
closeOneKeepsEntry(tps, conn, topicName) ==
    IF MapHas(tps, topicName)
    THEN MapSet(tps, topicName, SetDelete(tps[topicName], conn))
    ELSE tps

\* ------------------------------------------------------- the close handler
\* The body of the loop over subscribedTopics.
closeOne(tps, conn, topicName) ==
    LET subs == IF MapHas(tps, topicName) THEN tps[topicName] ELSE << >>
        left == SetDelete(subs, conn)
    IN  IF SetSize(left) = 0 THEN MapDelete(tps, topicName)
        ELSE MapSet(tps, topicName, left)

\* subscribedTopics.forEach(...); the order of the names does not matter to
\* the result, each step touches one key only.
RECURSIVE closeEach(_, _, _)
closeEach(tps, conn, names) ==
    IF names = {} THEN tps
    ELSE LET topicName == CHOOSE n \in names : TRUE
         IN  closeEach(closeOne(tps, conn, topicName), conn, names \ {topicName})

\* conn.on('close', ...): the channel emits 'close' once, when it has closed.
OnClose(conn) ==
    /\ ~crashed
    /\ conn \in connected
    /\ readyState[conn] = wsReadyStateClosing
    /\ readyState' = [readyState EXCEPT ![conn] = wsReadyStateClosed]
    /\ topics' = closeEach(topics, conn, subscribedTopics[conn])
    /\ subscribedTopics' = [subscribedTopics EXCEPT ![conn] = {}]
    /\ closed' = [closed EXCEPT ![conn] = TRUE]
    /\ event' = Event("close", conn, NoPayload)
    /\ before' = Snapshot
    /\ sent' = NoneSent
    /\ delivered' = NoneSent
    /\ probes' = NoProbes
    /\ probeFailed' = FALSE
    /\ joined' = [joined EXCEPT ![conn] = {}]
    /\ UNCHANGED <<connected, pongReceived, pingInterval, acking, crashed>>

\* The peer closes the channel, or the socket under it fails.
PeerClose(conn) ==
    /\ ~crashed
    /\ conn \in connected
    /\ readyState[conn] = wsReadyStateOpen
    /\ readyState' = [readyState EXCEPT ![conn] = wsReadyStateClosing]
    /\ event' = Event("peerclose", conn, NoPayload)
    /\ before' = Snapshot
    /\ sent' = NoneSent
    /\ delivered' = NoneSent
    /\ probes' = NoProbes
    /\ probeFailed' = FALSE
    /\ UNCHANGED <<connected, topics, subscribedTopics, closed, pongReceived,
                   pingInterval, acking, crashed, joined>>

\* ------------------------------------------------------------ the heartbeat
\* (variant: a probe that cannot be sent also stops the interval)
heartbeatStopsOnFailure(pong, rs, pingThrows) ==
    IF ~pong
    THEN [pongReceived |-> pong, readyState |-> ConnClose(rs),
          pingInterval |-> FALSE, probes |-> 0, threw |-> FALSE]
    ELSE [pongReceived |-> FALSE,
          readyState |-> IF pingThrows THEN ConnClose(rs) ELSE rs,
          pingInterval |-> ~pingThrows, probes |-> 1, threw |-> pingThrows]

\* (variant: the unanswered probe is sent again instead of giving up)
heartbeatProbesAgain(pong, rs, pingThrows) ==
    [pongReceived |-> FALSE,
     readyState |-> IF pingThrows THEN ConnClose(rs) ELSE rs,
     pingInterval |-> TRUE, probes |-> 1, threw |-> pingThrows]

\* The body of the setInterval callback, on the flag, the channel state
\* and the interval of one connection.  pingThrows: conn.ping() throws.
heartbeat(pong, rs, pingThrows) ==
    IF ~pong
    THEN [pongReceived |-> pong, readyState |-> ConnClose(rs),
          pingInterval |-> FALSE, probes |-> 0, threw |-> FALSE]
    ELSE [pongReceived |-> FALSE,
          readyState |-> IF pingThrows THEN ConnClose(rs) ELSE rs,
          pingInterval |-> TRUE, probes |-> 1, threw |-> pingThrows]

\* The setInterval callback fires while the interval is running.
Tick(conn, pingThrows) ==
    /\ ~crashed
    /\ conn \in connected
    /\ pingInterval[conn]
    /\ LET h == heartbeat(pongReceived[conn], readyState[conn], pingThrows)
       IN  /\ pongReceived' = [pongReceived EXCEPT ![conn] = h.pongReceived]
           /\ readyState' = [readyState EXCEPT ![conn] = h.readyState]
           /\ pingInterval' = [pingInterval EXCEPT ![conn] = h.pingInterval]
           /\ probes' = [NoProbes EXCEPT ![conn] = h.probes]
           /\ probeFailed' = h.threw
    /\ event' = Event("tick", conn, NoPayload)
    /\ before' = Snapshot
    /\ sent' = NoneSent
    /\ delivered' = NoneSent
    /\ UNCHANGED <<connected, topics, subscribedTopics, closed, acking, crashed,
                   joined>>

\* conn.on('pong', ...): the peer answers while its channel has not closed.
OnPong(conn) ==
    /\ ~crashed
    /\ conn \in connected
    /\ acking[conn]
    /\ readyState[conn] # wsReadyStateClosed
    /\ pongReceived' = [pongReceived EXCEPT ![conn] = TRUE]
    /\ event' = Event("pong", conn, NoPayload)
    /\ before' = Snapshot
    /\ sent' = NoneSent
    /\ delivered' = NoneSent
    /\ probes' = NoProbes
    /\ probeFailed' = FALSE
    /\ UNCHANGED <<connected, topics, subscribedTopics, closed, pingInterval,
                   readyState, acking, crashed, joined>>

\* The peer stops answering probes, for good.
StopAcking(conn) ==
    /\ ~crashed
    /\ conn \in connected
    /\ acking[conn]
    /\ acking' = [acking EXCEPT ![conn] = FALSE]
    /\ event' = Event("silent", conn, NoPayload)
    /\ before' = Snapshot
    /\ sent' = NoneSent
    /\ delivered' = NoneSent
    /\ probes' = NoProbes
    /\ probeFailed' = FALSE
    /\ UNCHANGED <<connected, topics, subscribedTopics, closed, pongReceived,
                   pingInterval, readyState, crashed, joined>>

Next ==
    \E conn \in Conns :
        \/ OnConnection(conn)
        \/ \E payload \in Payloads : \E faults \in Faults(conn, payload) :
               OnMessage(conn, payload, faults)
        \/ OnClose(conn)
        \/ PeerClose(conn)
        \/ \E pingThrows \in BOOLEAN : Tick(conn, pingThrows)
        \/ OnPong(conn)

Spec == Init /\ [][Next]_vars

\* The same program with peers that may fall silent, under the scheduling
\* the runtime guarantees: a running interval fires again, and a channel
\* that is closing emits its 'close' event.  The payloads are those that
\* decide membership, and the text that is no JSON.
LivePayloads ==
    {[json |-> TRUE, value |-> Value(TRUE, ty, ArrayTopics(<<t>>), "")] :
        ty \in {"subscribe", "unsubscribe"}, t \in Topics}
    \cup {[json |-> FALSE, value |-> NullValue]}

LiveNext ==
    \E conn \in Conns :
        \/ OnConnection(conn)
        \/ \E payload \in LivePayloads : OnMessage(conn, payload, {})
        \/ OnClose(conn)
        \/ PeerClose(conn)
        \/ \E pingThrows \in BOOLEAN : Tick(conn, pingThrows)
        \/ OnPong(conn)
        \/ StopAcking(conn)

Fairness ==
    \A conn \in Conns :
        /\ WF_vars(\E pingThrows \in BOOLEAN : Tick(conn, pingThrows))
        /\ WF_vars(OnClose(conn))

FairSpec == Init /\ [][LiveNext]_vars /\ Fairness

\* ------------------------------------------------------------ the claims
\* The last callback was the 'message' callback of c with a JSON payload of
\* the given type.
IsMessage(c, ty) ==
    /\ event.kind = "message"
    /\ event.conn = c
    /\ event.payload.json
    /\ event.payload.value.type = ty

\* The closed flag of c as the last callback found it: only the close
\* handler sets it.
wasClosed(c) == closed[c] /\ ~(event.kind = "close" /\ event.conn = c)

\* The subscribers of a topic name as the last callback found them.
beforeSubscribers(topicName) ==
    IF MapHas(before.topics, topicName)
    THEN Members(before.topics[topicName]) ELSE {}

registryUnchanged ==
    /\ topics = before.topics
    /\ subscribedTopics = before.subscribedTopics

\* No send of the last callback was failed by the transport: every channel
\* it found open is still open.
noSendFailed ==
    \A r \in Conns :
        before.readyState[r] = wsReadyStateOpen => readyState[r] = wsReadyStateOpen

\* C1: in every reachable state, a connection is in the subscriber set of a
\* topic exactly when the topic is in the connection's subscribedTopics.
C1_Bidirectional ==
    \A c \in Conns : \A t \in Topics :
        (c \in subscribers(t)) <=> (t \in subscribedTopics[c])

\* C2: in every reachable state, a topic name is a key of the registry
\* exactly when its subscriber set is not empty (so the unsubscribe of the
\* last subscriber deletes the entry in the same step).
C2_KeyIffSubscribers ==
    \A t \in Topics : MapHas(topics, t) <=> (subscribers(t) # {})

\* C3: once the close event of a connection has been handled, the
\* connection is in no subscriber set, in that state and in every later
\* one, and the close handler leaves no key for a topic whose only
\* subscriber the connection was.
C3_ClosedUnwound ==
    \A c \in Conns :
        /\ closed[c] => \A t \in Topics : c \notin subscribers(t)
        /\ (event.kind = "close" /\ event.conn = c) =>
               \A t \in Topics : beforeSubscribers(t) = {c} => ~MapHas(topics, t)

\* A connection the heartbeat gave up on has been closed while it was the
\* only subscriber of a topic.
C3_Witness ==
    \E c \in Conns : \E t \in Topics :
        /\ event.kind = "close" /\ event.conn = c
        /\ beforeSubscribers(t) = {c}
        /\ ~pingInterval[c]
        /\ closed[c]

\* C4 as claimed: a publish to topic T processed on a connection that is
\* not closed delivers one message, carrying clients = N, to each of the N
\* subscribers of T, also to one whose channel is closing or closed and
\* whose close event is still to come (no transport failure assumed).
C4_DeliveredToEverySubscriber ==
    \A c \in Conns :
        (IsMessage(c, "publish") /\ ~wasClosed(c) /\ noSendFailed) =>
            LET T == event.payload.value.topic
                N == Cardinality(beforeSubscribers(T))
            IN  \A r \in Conns :
                    delivered[r] = IF r \in beforeSubscribers(T)
                                   THEN <<OutMsg("publish", T, N)>> ELSE << >>

\* C4 as amended: such a publish hands exactly one message, carrying
\* clients = N, to the channel of each of the N subscribers and of nobody
\* else; a subscriber whose channel was open gets exactly that message
\* unless the transport fails the send, one whose channel was closing or
\* closed gets none; with T no key of the registry nothing is sent, and the
\* callback ends without an error.
C4_SentToEverySubscriber ==
    \A c \in Conns :
        (IsMessage(c, "publish") /\ ~wasClosed(c)) =>
            LET T == event.payload.value.topic
                N == Cardinality(beforeSubscribers(T))
            IN  /\ ~crashed
                /\ registryUnchanged
                /\ \A r \in Conns :
                    /\ sent[r] = IF r \in beforeSubscribers(T)
                                 THEN <<OutMsg("publish", T, N)>> ELSE << >>
                    /\ delivered[r] \in {<< >>, sent[r]}
                    /\ before.readyState[r] # wsReadyStateOpen => delivered[r] = << >>
                    /\ (before.readyState[r] = wsReadyStateOpen
                        /\ readyState[r] = wsReadyStateOpen) => delivered[r] = sent[r]

\* A publish to a topic with two subscribers, one of them on a closing
\* channel: both are counted, one message is delivered.
C4_Witness ==
    \E c \in Conns : \E r1, r2 \in Conns :
        /\ IsMessage(c, "publish") /\ ~wasClosed(c)
        /\ beforeSubscribers(event.payload.value.topic) = {r1, r2}
        /\ r1 # r2
        /\ before.readyState[r1] = wsReadyStateClosing
        /\ delivered[r1] = << >>
        /\ delivered[r2] = <<OutMsg("publish", event.payload.value.topic, 2)>>

\* C5 as claimed: every ping message received on a connection has exactly
\* one pong handed to that connection's channel and none to another one.
C5_EveryPingAnswered ==
    \A c \in Conns :
        IsMessage(c, "ping") =>
            \A r \in Conns : sent[r] = IF r = c THEN <<PongMsg>> ELSE << >>

\* C5 as amended: every ping message received on a connection whose closed
\* flag is not set has exactly one pong handed to that connection's
\* channel and none to another one, whatever the registry holds, and the
\* registry is left alone; the pong reaches the peer when the channel is
\* open and the transport does not fail the send, and nothing reaches
\* another peer.  A ping received after the flag is set gets no reply.
C5_OpenPingAnswered ==
    \A c \in Conns :
        IsMessage(c, "ping") =>
            IF wasClosed(c)
            THEN sent = NoneSent /\ delivered = NoneSent
            ELSE /\ registryUnchanged
                 /\ \A r \in Conns :
                        /\ sent[r] = IF r = c THEN <<PongMsg>> ELSE << >>
                        /\ r # c => delivered[r] = << >>
                 /\ delivered[c] \in {<< >>, <<PongMsg>>}
                 /\ before.readyState[c] # wsReadyStateOpen => delivered[c] = << >>
                 /\ (before.readyState[c] = wsReadyStateOpen
                     /\ readyState[c] = wsReadyStateOpen) => delivered[c] = <<PongMsg>>

\* A connection that subscribed to nothing pings while the other one is
\* subscribed, and gets its pong.
C5_Witness ==
    \E c \in Conns : \E o \in Conns \ {c} :
        /\ IsMessage(c, "ping") /\ ~wasClosed(c)
        /\ subscribedTopics[c] = {}
        /\ \E t \in Topics : o \in subscribers(t)
        /\ delivered[c] = <<PongMsg>>

\* C6: a connection subscribed to a topic whose peer no longer answers the
\* liveness probes is eventually closed and in no subscriber set, whether
\* or not it ever unsubscribes (the interval and the 'close' event being
\* scheduled fairly).
C6_SilentPeerEvicted ==
    \A c \in Conns :
        (~acking[c] /\ \E t \in Topics : c \in subscribers(t))
            ~> (closed[c] /\ \A t \in Topics : c \notin subscribers(t))

\* The payload of the last 'message' callback is malformed: no JSON text,
\* or a subscribe / unsubscribe whose topics field is no sequence, or a
\* value without a type, or a publish without a topic.
malformed(payload) ==
    \/ ~payload.json
    \/ ~payload.value.truthy
    \/ payload.value.type = ""
    \/ /\ payload.value.type \in {"subscribe", "unsubscribe"}
       /\ payload.value.topics.kind # "array"
    \/ /\ payload.value.type = "publish"
       /\ payload.value.topic = ""

\* C7: a payload that is no JSON, or whose fields are missing or of the
\* wrong type, is discarded: the process goes on, the sending connection's
\* channel stays as it was, and the registry and every subscribedTopics
\* are unchanged.
C7_MalformedDiscarded ==
    \A c \in Conns :
        (event.kind = "message" /\ event.conn = c /\ malformed(event.payload)) =>
            /\ ~crashed
            /\ registryUnchanged
            /\ readyState[c] = before.readyState[c]

\* C8: a subscribe, unsubscribe, publish or ping message arriving on a
\* connection whose closed flag is set changes neither the registry nor a
\* subscribedTopics set and has no message sent to any connection.
C8_DroppedWhenClosed ==
    \A c \in Conns :
        \A ty \in {"subscribe", "unsubscribe", "publish", "ping"} :
            (IsMessage(c, ty) /\ wasClosed(c)) =>
                /\ registryUnchanged
                /\ sent = NoneSent
                /\ delivered = NoneSent

\* A closed connection has sent a subscribe for a topic the other
\* connection is subscribed to.
C8_Witness ==
    \E c \in Conns : \E t \in Topics :
        /\ IsMessage(c, "subscribe") /\ wasClosed(c)
        /\ event.payload.value.topics = ArrayTopics(<<t>>)
        /\ subscribers(t) # {}

\* The number of times x occurs in a sequence.
occurrences(s, x) == Cardinality({i \in 1..Len(s) : s[i] = x})

\* The string entries of the topics list of the last message.
listedTopics ==
    {event.payload.value.topics.items[i] :
        i \in 1..Len(event.payload.value.topics.items)} \ NonStrings

\* C9: subscribe is idempotent.  A subscribe processed for a connection C
\* leaves C exactly once in the set of every topic it lists, however often
\* the list names the topic; when C was subscribed to all of them before,
\* the registry and C's subscribedTopics are as they were; and a publish to
\* a topic whose set holds C alone reports clients = 1 and hands C one
\* message, which reaches C on an open channel the transport does not fail.
C9_SubscribeIdempotent ==
    \A c \in Conns :
        /\ (IsMessage(c, "subscribe") /\ ~wasClosed(c) /\ ~crashed) =>
               /\ \A t \in listedTopics :
                      /\ MapHas(topics, t)
                      /\ occurrences(topics[t], c) = 1
                      /\ t \in subscribedTopics[c]
               /\ (\A t \in listedTopics : c \in beforeSubscribers(t)) =>
                      registryUnchanged
        /\ \A p \in Conns :
               (/\ IsMessage(p, "publish") /\ ~wasClosed(p)
                /\ beforeSubscribers(event.payload.value.topic) = {c}) =>
                   /\ SetSize(topics[event.payload.value.topic]) = 1
                   /\ sent[c] = <<OutMsg("publish", event.payload.value.topic, 1)>>
                   /\ (before.readyState[c] = wsReadyStateOpen /\ noSendFailed) =>
                          delivered[c] = sent[c]

\* A connection that was subscribed to a topic has subscribed to it again,
\* naming it twice in one list.
C9_Witness ==
    \E c \in Conns : \E t \in Topics :
        /\ IsMessage(c, "subscribe") /\ ~wasClosed(c)
        /\ event.payload.value.topics = ArrayTopics(<<t, t>>)
        /\ c \in beforeSubscribers(t)
        /\ topics[t] = <<c>>

\* C10: an unsubscribe of a connection C that names only topics C is not
\* in the subscriber set of (no key of the registry, or a key with other
\* subscribers only) raises no error, leaves the registry and every
\* subscribedTopics as they were, and sends nothing.
C10_UnsubscribeAbsentNoOp ==
    \A c \in Conns :
        (/\ IsMessage(c, "unsubscribe")
         /\ event.payload.value.topics.kind = "array"
         /\ \A t \in listedTopics : c \notin beforeSubscribers(t)) =>
            /\ ~crashed
            /\ registryUnchanged
            /\ readyState = before.readyState
            /\ sent = NoneSent
            /\ delivered = NoneSent

\* A connection has unsubscribed from a topic that only the other
\* connection is subscribed to.
C10_Witness ==
    \E c \in Conns : \E o \in Conns \ {c} : \E t \in Topics :
        /\ IsMessage(c, "unsubscribe") /\ ~wasClosed(c)
        /\ event.payload.value.topics = ArrayTopics(<<t>>)
        /\ beforeSubscribers(t) = {o}
        /\ subscribers(t) = {o}

\* C11: the fan-out of a publish follows membership alone and includes the
\* publisher: a publish to topic T processed on connection A hands the
\* message to A exactly when A is a subscriber of T at that moment, and
\* hands it to every other subscriber of T whether or not A is one; a
\* subscriber whose channel is open and whose send does not fail receives it.
C11_FanOutByMembership ==
    \A c \in Conns :
        (IsMessage(c, "publish") /\ ~wasClosed(c)) =>
            LET T == event.payload.value.topic
                msg == OutMsg("publish", T, Cardinality(beforeSubscribers(T)))
                got(r) == /\ sent[r] = <<msg>>
                          /\ (before.readyState[r] = wsReadyStateOpen
                              /\ readyState[r] = wsReadyStateOpen) =>
                                 delivered[r] = <<msg>>
            IN  /\ c \in beforeSubscribers(T) => got(c)
                /\ c \notin beforeSubscribers(T) =>
                       sent[c] = << >> /\ delivered[c] = << >>
                /\ \A r \in beforeSubscribers(T) \ {c} : got(r)

\* A subscriber published to its own topic and received the message itself,
\* as did the other subscriber.
C11_Witness ==
    \E c \in Conns : \E o \in Conns \ {c} :
        /\ IsMessage(c, "publish") /\ ~wasClosed(c)
        /\ beforeSubscribers(event.payload.value.topic) = {c, o}
        /\ delivered[c] = <<OutMsg("publish", event.payload.value.topic, 2)>>
        /\ delivered[o] = delivered[c]

\* C12: handling an event of connection A (a message of any shape, its
\* heartbeat tick, its close) leaves every other connection B as it was, in
\* the subscriber sets, in B's subscribedTopics, in B's closed flag and in
\* B's pong flag, and leaves the process able to handle B's next message.
C12_Isolation ==
    \A a \in Conns : \A b \in connected \ {a} :
        (event.conn = a /\ event.kind \in {"message", "tick", "close"}) =>
            /\ \A t \in Topics : (b \in subscribers(t)) <=> (b \in beforeSubscribers(t))
            /\ subscribedTopics[b] = before.subscribedTopics[b]
            /\ closed[b] = before.closed[b]
            /\ pongReceived[b] = before.pongReceived[b]
            /\ ~crashed

\* C13: once the close handler of a connection has run, whatever closed the
\* channel, the heartbeat interval of the connection is no longer running
\* and its callback does not fire again.
C13_ClosedStopsHeartbeat ==
    \A c \in Conns :
        /\ closed[c] => ~pingInterval[c]
        /\ (event.kind = "tick" /\ event.conn = c) => ~before.closed[c]

\* C14: a send to a connection whose channel is neither connecting nor open
\* closes the channel and does not call conn.send; a send on a connecting or
\* open channel that fails closes the channel, and the message is handed to
\* conn.send once, never again.
C14_NoSendOnDeadChannel ==
    \A r \in Conns :
        LET live == before.readyState[r] \in {wsReadyStateConnecting, wsReadyStateOpen}
        IN  /\ ~live => sent[r] = << >>
            /\ (live /\ sent[r] # << >> /\ delivered[r] = << >>) =>
                   /\ readyState[r] = wsReadyStateClosing
                   /\ Len(sent[r]) = 1

\* C15: a heartbeat tick of a connection whose channel is open does one of
\* two things: when the pong flag is false it closes the channel and stops
\* the interval without sending a probe; otherwise it sets the flag to false,
\* sends one probe and leaves the interval running.  The flag is true when
\* the connection is made, and a pong sets it to true.
C15_TickClosesOrProbes ==
    \A c \in Conns :
        /\ (event.kind = "tick" /\ event.conn = c
            /\ before.readyState[c] = wsReadyStateOpen) =>
               /\ before.pingInterval[c]
               /\ IF ~before.pongReceived[c]
                  THEN /\ readyState[c] = wsReadyStateClosing
                       /\ ~pingInterval[c]
                       /\ probes[c] = 0
                       /\ ~pongReceived[c]
                  ELSE /\ ~pongReceived[c]
                       /\ probes[c] = 1
                       /\ pingInterval[c]
               /\ \A o \in Conns \ {c} : probes[o] = 0
        /\ (event.kind = "connection" /\ event.conn = c) => pongReceived[c]
        /\ (event.kind = "pong" /\ event.conn = c) => pongReceived[c]

\* A tick found the probe of the tick before unanswered on an open channel
\* and gave the connection up.
C15_Witness ==
    \E c \in Conns :
        /\ event.kind = "tick" /\ event.conn = c
        /\ before.readyState[c] = wsReadyStateOpen
        /\ ~before.pongReceived[c]
        /\ readyState[c] = wsReadyStateClosing
        /\ ~pingInterval[c]

\* The connections that asked for a topic in a message processed before the
\* last callback and have not unsubscribed from it or closed since.
askedBefore(topicName) ==
    {r \in Conns : topicName \in joined[r]}

\* C16: callbacks run one after the other in the order of arrival, and a
\* publish to T goes to exactly the subscribers of the moment it is
\* processed: the connections whose subscribe to T was processed before it
\* and that have not unsubscribed or closed since.  A subscribe processed
\* later sends nothing of an earlier publish.
C16_PublishToSnapshot ==
    \A c \in Conns :
        /\ (IsMessage(c, "publish") /\ ~wasClosed(c)) =>
               LET T == event.payload.value.topic
               IN  \A r \in Conns :
                       /\ r \in askedBefore(T) => Len(sent[r]) = 1
                       /\ r \notin askedBefore(T) => sent[r] = << >>
                       /\ (r \in askedBefore(T)
                           /\ before.readyState[r] = wsReadyStateOpen
                           /\ readyState[r] = wsReadyStateOpen) =>
                              delivered[r] = <<OutMsg("publish", T, Cardinality(askedBefore(T)))>>
        /\ IsMessage(c, "subscribe") => sent = NoneSent /\ delivered = NoneSent

\* One connection subscribed before the publish and received it; the other
\* had subscribed and unsubscribed again and received nothing.
C16_Witness ==
    \E c \in Conns : \E o \in Conns \ {c} : \E t \in Topics :
        /\ IsMessage(o, "publish") /\ event.payload.value.topic = t
        /\ askedBefore(t) = {c}
        /\ t \in subscribedTopics[o]
        /\ delivered[c] = <<OutMsg("publish", t, 1)>>
        /\ sent[o] = << >>

\* C17: an unsubscribe of C from T that is processed takes C out of the
\* subscriber set of T, and from then until a later subscribe of C to T is
\* processed a publish to T hands C nothing and does not count C in clients.
C17_UnsubscribedGetsNothing ==
    \A c \in Conns :
        /\ (IsMessage(c, "unsubscribe") /\ ~wasClosed(c) /\ ~crashed) =>
               \A t \in listedTopics : c \notin subscribers(t)
        /\ \A p \in Conns :
               LET T == event.payload.value.topic
               IN  (IsMessage(p, "publish") /\ T \notin joined[c]) =>
                       /\ sent[c] = << >>
                       /\ delivered[c] = << >>
                       /\ \A r \in Conns : \A i \in 1..Len(sent[r]) :
                              sent[r][i].clients = Cardinality(beforeSubscribers(T) \ {c})

\* C had subscribed to the topic and unsubscribed again; the publish of the
\* remaining subscriber reached that subscriber alone, with clients = 1.
C17_Witness ==
    \E c \in Conns : \E o \in Conns \ {c} : \E t \in Topics :
        /\ IsMessage(o, "publish") /\ event.payload.value.topic = t
        /\ t \in subscribedTopics[c] /\ t \notin joined[c] /\ ~closed[c]
        /\ readyState[c] = wsReadyStateOpen
        /\ delivered[o] = <<OutMsg("publish", t, 1)>>
        /\ delivered[c] = << >>

\* C18: in every reachable state a connection that is in the subscriber set
\* of a topic has the topic in its subscribedTopics and its closed flag is
\* false: the connection's own set covers all its memberships.
C18_MembershipCovered ==
    \A c \in Conns : \A t \in Topics :
        c \in subscribers(t) => (t \in subscribedTopics[c] /\ ~closed[c])

\* One connection is a subscriber of a topic; the other has the topic in
\* its own set without being a subscriber.
C18_Witness ==
    \E c \in Conns : \E o \in Conns \ {c} : \E t \in Topics :
        /\ subscribers(t) = {c}
        /\ t \in subscribedTopics[c] /\ ~closed[c]
        /\ t \in subscribedTopics[o] /\ ~closed[o]

\* C19: in every reachable state every key of the registry is in the
\* subscribedTopics of some connection whose close event has not been
\* handled; so when the close events of all connections have been handled
\* the registry has no key.
C19_NoLeakedKey ==
    /\ \A t \in DOMAIN topics :
           \E c \in connected : ~closed[c] /\ t \in subscribedTopics[c]
    /\ (\A c \in connected : closed[c]) => DOMAIN topics = {}

\* The last open connection closed after it had unsubscribed and left an
\* empty entry behind: the close handler took the entry away.
C19_Witness ==
    \E c \in Conns : \E t \in Topics :
        /\ event.kind = "close" /\ event.conn = c
        /\ connected = Conns
        /\ \A o \in Conns : closed[o]
        /\ MapHas(before.topics, t) /\ beforeSubscribers(t) = {}
        /\ DOMAIN topics = {}

\* C20 as claimed: a tick that finds the pong of the previous probe handled
\* (as every tick of a responsive connection does) neither closes the
\* channel nor stops the interval.
C20_ResponsiveNeverClosed ==
    \A c \in Conns :
        (event.kind = "tick" /\ event.conn = c /\ before.pongReceived[c]) =>
            /\ readyState[c] = before.readyState[c]
            /\ pingInterval[c]

\* C20, amended: a tick that finds the pong of the previous probe handled
\* sends one probe and leaves the interval running, the closed flag and the
\* registry as they were; it closes the channel only when conn.ping()
\* throws.  No message callback touches the pong flag or the interval, so a
\* connection whose pongs are handled before the next tick keeps its timer
\* through any number of ticks.
C20_ResponsiveKeepsTimer ==
    /\ \A c \in Conns :
           (event.kind = "tick" /\ event.conn = c /\ before.pongReceived[c]) =>
               /\ pingInterval[c]
               /\ probes[c] = 1
               /\ closed[c] = before.closed[c]
               /\ registryUnchanged
               /\ ~probeFailed => readyState = before.readyState
               /\ probeFailed =>
                      readyState[c] = ConnClose(before.readyState[c])
    /\ event.kind = "message" =>
           /\ pongReceived = before.pongReceived
           /\ pingInterval = before.pingInterval

\* A subscriber whose pong had been handled was probed again on an open
\* channel and stays connected and subscribed.
C20_Witness ==
    \E c \in Conns : \E t \in Topics :
        /\ event.kind = "tick" /\ event.conn = c
        /\ before.pongReceived[c]
        /\ c \in subscribers(t)
        /\ probes[c] = 1 /\ ~probeFailed
        /\ readyState[c] = wsReadyStateOpen
        /\ pingInterval[c]

TypeOK ==
    /\ connected \subseteq Conns
    /\ DOMAIN topics \subseteq Topics
    /\ \A t \in DOMAIN topics : Members(topics[t]) \subseteq connected
    /\ \A c \in Conns : subscribedTopics[c] \subseteq Topics
    /\ \A c \in Conns : joined[c] \subseteq Topics
    /\ crashed \in BOOLEAN
    /\ probeFailed \in BOOLEAN
====
